---- MODULE Spec2Model ----
(***************************************************************************)
(* Model of girder_worker/plugins/docker/executor.py: the docker task      *)
(* executor (pull -> expand args -> run container -> garbage collect ->    *)
(* extract outputs -> join the garbage collector).                         *)
(*                                                                         *)
(* Strings are sequences of tokens.  A token is a chunk of text that the   *)
(* code treats as a unit: a path separator "/", a path component, a        *)
(* literal chunk of an argument, or a whole placeholder "$input{id}".      *)
(***************************************************************************)
EXTENDS Naturals, Sequences, FiniteSets, TLC

\* ------------------------------------------------------------------ bounds
MaxOutputs == 2      \* at most this many declared outputs per task
MaxExit == 2         \* external processes exit with a status in 0..MaxExit
MaxArgLen == 2       \* a container argument has at most this many tokens

\* ------------------------------------------------------------- string helpers
startswith(s, prefix) ==
    /\ Len(s) >= Len(prefix)
    /\ SubSeq(s, 1, Len(prefix)) = prefix

\* index of the first occurrence of the non-empty token sequence old in s, or 0
find(s, old) ==
    LET hits == {i \in 1..Len(s) : /\ i + Len(old) - 1 <= Len(s)
                                   /\ SubSeq(s, i, i + Len(old) - 1) = old}
    IN IF hits = {} THEN 0 ELSE CHOOSE i \in hits : \A j \in hits : i <= j

\* str.replace(old, new, 1): only the first occurrence is replaced
replace_first(s, old, new) ==
    LET i == find(s, old)
    IN IF i = 0 THEN s
       ELSE SubSeq(s, 1, i - 1) \o new \o SubSeq(s, i + Len(old), Len(s))

\* ------------------------------------------------------------ the task's data
DATA == <<"/", "data">>              \* the literal '/data'
DATA_SLASH == <<"/", "data", "/">>   \* the literal '/data/'
TempDir == <<"/", "tmp", "/", "job1">>   \* kwargs['_tempdir'] of this worker

OutputIds == {"_stdout", "_stderr", "out", "res"}
Streams == {"_stdout", "_stderr"}

\* the values of spec['path'] the model draws from; hasPath = FALSE models a
\* descriptor without a 'path' key
OutputPaths == { <<"/", "data", "/", "f">>, <<"/", "etc", "/", "f">> }

\* a task output descriptor together with its key in task_outputs;
\* "memory" stands for every target other than 'filepath' (a missing one too)
OutputSpecs ==
    [name : OutputIds, target : {"filepath"}, hasPath : {TRUE}, path : OutputPaths]
    \cup [name : OutputIds, target : {"filepath", "memory"}, hasPath : {FALSE},
          path : {<<>>}]

\* task_outputs is a dict; the model keeps it as the sequence of its items in
\* the (arbitrary but fixed) order iteritems() yields them
RECURSIVE SeqsUpTo(_, _)
SeqsUpTo(S, n) ==
    IF n = 0 THEN {<<>>}
    ELSE LET shorter == SeqsUpTo(S, n - 1)
         IN shorter \cup {Append(s, x) : s \in shorter, x \in S}

Names(outs) == {outs[i].name : i \in 1..Len(outs)}

TaskOutputs ==
    {outs \in SeqsUpTo(OutputSpecs, MaxOutputs) : Cardinality(Names(outs)) = Len(outs)}

\* spec.get('path', name)
effective_path(spec) == IF spec.hasPath THEN spec.path ELSE <<spec.name>>

\* ---------------------------------------------------- validate_task_outputs
\* faulty variant: the check of the non-filepath outputs' ids is left out
spec_is_invalid_paths_only(spec) ==
    /\ spec.target = "filepath"
    /\ startswith(effective_path(spec), <<"/">>)
    /\ ~startswith(effective_path(spec), DATA_SLASH)

\* faulty variant: a relative path is held to the '/data/' prefix as well
spec_is_invalid_no_relative(spec) ==
    IF spec.target = "filepath"
    THEN ~startswith(effective_path(spec), DATA_SLASH)
    ELSE spec.name \notin Streams

\* TRUE iff this one item makes validate_task_outputs raise
spec_is_invalid(spec) ==
    IF spec.target = "filepath"
    THEN LET path == effective_path(spec)
         IN startswith(path, <<"/">>) /\ ~startswith(path, DATA_SLASH)
    ELSE spec.name \notin Streams

validate_task_outputs(task_outputs) ==
    IF \E i \in 1..Len(task_outputs) : spec_is_invalid(task_outputs[i])
    THEN "TaskSpecValidationError"
    ELSE "ok"

\* ------------------------------------------------- output extraction (paths)
\* lines 188-194 of run(): the host path of a filepath output
host_path(spec) ==
    LET path == effective_path(spec)
        rooted == IF ~startswith(path, <<"/">>) THEN DATA_SLASH \o path ELSE path
    IN replace_first(rooted, DATA, TempDir)

HostPaths(task_outputs) ==
    {host_path(task_outputs[i]) :
        i \in {j \in 1..Len(task_outputs) : task_outputs[j].target = "filepath"}}

\* ------------------------------------------------------- argument expansion
InputIds == {"foo", "bar", "_tempdir"}

\* the text '$input{%s}' % inputId, one token
Placeholder(inputId) ==
    CASE inputId = "foo" -> "$input{foo}"
      [] inputId = "bar" -> "$input{bar}"
      [] inputId = "_tempdir" -> "$input{_tempdir}"

IsPlaceholder(tok) == \E id \in InputIds : Placeholder(id) = tok
PlaceholderId(tok) == CHOOSE id \in InputIds : Placeholder(id) = tok

\* re.findall(regex, arg): the ids of the placeholders of arg, left to right
RECURSIVE findall(_)
findall(arg) ==
    IF arg = <<>> THEN <<>>
    ELSE IF IsPlaceholder(Head(arg))
         THEN <<PlaceholderId(Head(arg))>> \o findall(Tail(arg))
         ELSE findall(Tail(arg))

\* str.replace(old, new) for a one-token old: every occurrence is replaced
RECURSIVE replace(_, _, _)
replace(s, old, new) ==
    IF s = <<>> THEN <<>>
    ELSE (IF Head(s) = old THEN new ELSE <<Head(s)>>) \o replace(Tail(s), old, new)

\* the components of a path: its tokens other than the separator
RECURSIVE split(_)
split(path) ==
    IF path = <<>> THEN <<>>
    ELSE IF Head(path) = "/" THEN split(Tail(path))
         ELSE <<Head(path)>> \o split(Tail(path))

\* os.path.abspath of an absolute path: '.' dropped, '..' pops a component
RECURSIVE normalize(_, _)
normalize(comps, acc) ==
    IF comps = <<>> THEN acc
    ELSE IF Head(comps) = "." THEN normalize(Tail(comps), acc)
    ELSE IF Head(comps) = ".."
         THEN normalize(Tail(comps),
                        IF acc = <<>> THEN acc ELSE SubSeq(acc, 1, Len(acc) - 1))
    ELSE normalize(Tail(comps), Append(acc, Head(comps)))

RECURSIVE commonprefix(_, _)
commonprefix(a, b) ==
    IF a = <<>> \/ b = <<>> \/ Head(a) # Head(b) THEN 0
    ELSE 1 + commonprefix(Tail(a), Tail(b))

\* os.path.join(*rel_list)
RECURSIVE join(_)
join(comps) ==
    IF comps = <<>> THEN <<>>
    ELSE IF Len(comps) = 1 THEN comps
    ELSE <<Head(comps), "/">> \o join(Tail(comps))

\* os.path.relpath(path, start), both absolute
relpath(path, start) ==
    LET start_list == normalize(split(start), <<>>)
        path_list == normalize(split(path), <<>>)
        i == commonprefix(start_list, path_list)
        rel_list == [k \in 1..(Len(start_list) - i) |-> ".."]
                    \o SubSeq(path_list, i + 1, Len(path_list))
    IN IF rel_list = <<>> THEN <<".">> ELSE join(rel_list)

\* faulty variant: the descriptor's name is looked at even when it has an id
tiId_by_name(ti) == ti.name

\* a task input descriptor: ti['id'] may be missing, and then ti['name'] is used
tiId(ti) == IF ti.hasId THEN ti.id ELSE ti.name

Raise == [raised |-> TRUE, value |-> <<>>]
Return(v) == [raised |-> FALSE, value |-> v]

\* faulty variant: the descriptor's target is not looked at
_transform_path_no_rewrite(inputs, taskInputs, inputId, tmpDir) ==
    IF \E i \in 1..Len(taskInputs) : tiId(taskInputs[i]) = inputId
    THEN Return(inputs[inputId])
    ELSE Raise

\* taskInputs is the sequence taskInputs.itervalues() yields
_transform_path(inputs, taskInputs, inputId, tmpDir) ==
    LET hits == {i \in 1..Len(taskInputs) : tiId(taskInputs[i]) = inputId}
    IN IF hits = {} THEN Raise
       ELSE LET ti == taskInputs[CHOOSE i \in hits : \A j \in hits : i <= j]
            IN IF ti.target = "filepath"
               THEN Return(DATA \o <<"/">> \o relpath(inputs[inputId], tmpDir))
               ELSE Return(inputs[inputId])

\* faulty variant: an id that is not among the inputs is an error
RECURSIVE expand_arg_strict(_, _, _, _, _)
expand_arg_strict(arg, ids, inputs, taskInputs, tmpDir) ==
    IF ids = <<>> THEN Return(arg)
    ELSE LET inputId == Head(ids)
         IN IF inputId \in DOMAIN inputs
            THEN LET transformed == _transform_path(inputs, taskInputs, inputId, tmpDir)
                 IN IF transformed.raised THEN Raise
                    ELSE expand_arg_strict(
                            replace(arg, Placeholder(inputId), transformed.value),
                            Tail(ids), inputs, taskInputs, tmpDir)
            ELSE IF inputId = "_tempdir"
            THEN expand_arg_strict(replace(arg, Placeholder("_tempdir"), DATA),
                                   Tail(ids), inputs, taskInputs, tmpDir)
            ELSE Raise

\* the inner loop of _expand_args over the ids findall() gave for one argument
RECURSIVE expand_arg(_, _, _, _, _)
expand_arg(arg, ids, inputs, taskInputs, tmpDir) ==
    IF ids = <<>> THEN Return(arg)
    ELSE LET inputId == Head(ids)
         IN IF inputId \in DOMAIN inputs
            THEN LET transformed == _transform_path(inputs, taskInputs, inputId, tmpDir)
                 IN IF transformed.raised THEN Raise
                    ELSE expand_arg(replace(arg, Placeholder(inputId), transformed.value),
                                    Tail(ids), inputs, taskInputs, tmpDir)
            ELSE IF inputId = "_tempdir"
            THEN expand_arg(replace(arg, Placeholder("_tempdir"), DATA),
                            Tail(ids), inputs, taskInputs, tmpDir)
            ELSE expand_arg(arg, Tail(ids), inputs, taskInputs, tmpDir)

RECURSIVE _expand_args(_, _, _, _)
_expand_args(args, inputs, taskInputs, tmpDir) ==
    IF args = <<>> THEN Return(<<>>)
    ELSE LET first == expand_arg(Head(args), findall(Head(args)), inputs, taskInputs,
                                 tmpDir)
             rest == _expand_args(Tail(args), inputs, taskInputs, tmpDir)
         IN IF first.raised \/ rest.raised THEN Raise
            ELSE Return(<<first.value>> \o rest.value)

\* --------------------------------------------------- the tasks the model runs
PullFlags == {"absent", "true", "false"}    \* task.get('pull_image', True)

\* the (container_args, inputs, task_inputs) the executions draw from
FooFile == <<"/", "tmp", "/", "job1", "/", "in.txt">>
PlainFoo == [hasId |-> TRUE, id |-> "foo", name |-> "foo", target |-> "memory"]
FileFoo == [hasId |-> FALSE, id |-> "", name |-> "foo", target |-> "filepath"]

Scenarios ==
    { [container_args |-> << <<"--in=", "$input{foo}">>, <<"$input{_tempdir}">> >>,
       inputs |-> [i \in {"foo"} |-> FooFile], task_inputs |-> <<FileFoo>>],
      [container_args |-> << <<"$input{foo}">>, <<"$input{bar}">> >>,
       inputs |-> [i \in {"foo"} |-> <<"hello">>], task_inputs |-> <<PlainFoo>>],
      [container_args |-> << <<"$input{foo}">> >>,
       inputs |-> [i \in {"foo"} |-> <<"hello">>], task_inputs |-> <<>>] }

ExitCodes == 0..MaxExit

\* ------------------------------------------------------------------- state
VARIABLES
    task,            \* the task spec: pull_image, container_args
    inputs,          \* resolved inputs: id -> script_data
    task_inputs,     \* input descriptors, in itervalues() order
    task_outputs,    \* output descriptors, in iteritems() order
    outputs,         \* the output slots: id -> [set, script_data]
    pc,              \* where the execution stands
    error,           \* the exception that ended the execution, if any
    validated,       \* validate_task_outputs returned for this execution
    pull,            \* the docker pull process: [state, code, started]
    expanded,        \* _expand_args was called in this execution
    args,            \* the expanded container arguments
    print_stdout, print_stderr,
    container,       \* the docker run process: [state, code, started]
    files,           \* host paths that exist once the container has exited
    scratch,         \* tempdir/docker_gc_scratch exists on disk
    scratchMade,     \* this execution created the scratch directory
    excludeFile,     \* this execution wrote .docker-gc-exclude
    gc,              \* the docker-gc process: [state, code, started]
    gcWaited,        \* p.wait() returned for the docker-gc process
    idx,             \* number of task_outputs items the extraction loop is done with
    script,          \* what _docker_gc found the docker-gc script to be
    checked,         \* names of the outputs whose host path was tested for existence
    extracted,       \* names of the outputs whose slot the extraction loop wrote
    writes           \* writes of run() to each slot's script_data

config == <<task, inputs, task_inputs, task_outputs>>
procs == <<pull, container, gc>>
slots == <<outputs, writes>>
vars == <<task, inputs, task_inputs, task_outputs, outputs, pc, error,
          validated, pull, expanded, args, print_stdout, print_stderr, container,
          files, scratch, scratchMade, excludeFile, gc, gcWaited, idx, script, checked,
          extracted, writes>>

NoProcess == [state |-> "none", code |-> 0, started |-> 0]
NoError == [kind |-> "none", code |-> 0]
Exception(kind, code) == [kind |-> kind, code |-> code]
Unset == [set |-> FALSE, script_data |-> <<>>]
Set(v) == [set |-> TRUE, script_data |-> v]

Declared == Names(task_outputs)

\* the state a fresh call of the framework starts from: nothing has run, the
\* slots are empty
Fresh ==
    /\ outputs = [id \in OutputIds |-> Unset]
    /\ writes = [id \in OutputIds |-> 0]
    /\ pc = "before_run"
    /\ error = NoError
    /\ validated = FALSE
    /\ pull = NoProcess
    /\ expanded = FALSE
    /\ args = <<>>
    /\ print_stdout = TRUE
    /\ print_stderr = TRUE
    /\ container = NoProcess
    /\ files = {}
    /\ scratchMade = FALSE
    /\ excludeFile = FALSE
    /\ gc = NoProcess
    /\ gcWaited = FALSE
    /\ idx = 0
    /\ script = "unchecked"
    /\ checked = {}
    /\ extracted = {}

Init ==
    /\ \E flag \in PullFlags, sc \in Scenarios :
          /\ task = [pull_image |-> flag, container_args |-> sc.container_args]
          /\ inputs = sc.inputs
          /\ task_inputs = sc.task_inputs
    /\ task_outputs \in TaskOutputs
    /\ scratch = FALSE
    /\ Fresh

\* ------------------------------------------------------------------ actions
Fail(kind, code) ==
    /\ error' = Exception(kind, code)
    /\ pc' = "failed"

\* the framework's 'run.before' hook of the docker plugin: the output specs are
\* validated before inputs are fetched and run() is entered
BeforeRun ==
    /\ pc = "before_run"
    /\ IF validate_task_outputs(task_outputs) = "ok"
       THEN /\ validated' = TRUE
            /\ pc' = "run"
            /\ error' = error
       ELSE /\ validated' = validated
            /\ Fail("TaskSpecValidationError", 0)
    /\ UNCHANGED <<config, slots, procs, expanded, args, print_stdout,
                   print_stderr, files, scratch, scratchMade, excludeFile, gcWaited,
                   idx, script, checked, extracted>>

Started(p) == [state |-> "running", code |-> 0, started |-> p.started + 1]
Exited(p, rc) == [p EXCEPT !.state = "exited", !.code = rc]

\* faulty variant: a missing pull_image key counts as false
pull_image_default_false(t) == t.pull_image = "true"

\* task.get('pull_image', True)
pull_image_enabled(t) == t.pull_image # "false"


\* faulty variant: docker pull is started and not waited for
RunBegin_no_communicate ==
    /\ pc = "run"
    /\ pull' = IF pull_image_enabled(task) THEN Started(pull) ELSE pull
    /\ pc' = "expand"
    /\ UNCHANGED <<config, slots, error, validated, container, gc, expanded,
                   args, print_stdout, print_stderr, files, scratch, scratchMade,
                   excludeFile, gcWaited, idx, script, checked, extracted>>

\* run(), lines 141-145, up to the Popen of _pull_image
RunBegin ==
    /\ pc = "run"
    /\ IF pull_image_enabled(task)
       THEN /\ pull' = Started(pull)
            /\ pc' = "pulling"
       ELSE /\ pull' = pull
            /\ pc' = "expand"
    /\ UNCHANGED <<config, slots, error, validated, container, gc, expanded,
                   args, print_stdout, print_stderr, files, scratch, scratchMade,
                   excludeFile, gcWaited, idx, script, checked, extracted>>

\* faulty variant: a failed pull is tried once more
PullExit_retry(rc) ==
    /\ pc = "pulling"
    /\ IF rc # 0 /\ pull.started < 2
       THEN /\ pull' = Started(pull)
            /\ UNCHANGED <<pc, error>>
       ELSE /\ pull' = Exited(pull, rc)
            /\ IF rc # 0
               THEN Fail("Docker pull returned code", rc)
               ELSE /\ pc' = "expand"
                    /\ error' = error
    /\ UNCHANGED <<config, slots, validated, container, gc, expanded, args,
                   print_stdout, print_stderr, files, scratch, scratchMade,
                   excludeFile, gcWaited, idx, script, checked, extracted>>

\* _pull_image, lines 16-23: communicate() returns once docker pull has exited
PullExit(rc) ==
    /\ pc = "pulling"
    /\ pull' = Exited(pull, rc)
    /\ IF rc # 0
       THEN Fail("Docker pull returned code", rc)
       ELSE /\ pc' = "expand"
            /\ error' = error
    /\ UNCHANGED <<config, slots, validated, container, gc, expanded, args,
                   print_stdout, print_stderr, files, scratch, scratchMade,
                   excludeFile, gcWaited, idx, script, checked, extracted>>

\* faulty variant: only the outputs that are not filepath targets count as streams
stream_declared_by_target(id, outs) ==
    \E i \in 1..Len(outs) : outs[i].name = id /\ outs[i].target # "filepath"

\* run(), lines 152-158: is the stream named id one of the task_outputs keys
stream_declared(id, outs) == id \in Names(outs)

\* run(), lines 147-176, up to the Popen of run_process: the arguments are
\* expanded, the declared streams' slots are emptied, the container is started
StartContainer ==
    /\ pc = "expand"
    /\ expanded' = TRUE
    /\ LET r == _expand_args(task.container_args, inputs, task_inputs, TempDir)
       IN IF r.raised
          THEN /\ Fail("No task input found with id", 0)
               /\ UNCHANGED <<args, slots, print_stdout, print_stderr, container>>
          ELSE /\ args' = r.value
               /\ outputs' = [id \in OutputIds |->
                                IF id \in Streams /\ stream_declared(id, task_outputs)
                                THEN Set(<<>>) ELSE outputs[id]]
               /\ writes' = [id \in OutputIds |->
                                IF id \in Streams /\ stream_declared(id, task_outputs)
                                THEN writes[id] + 1 ELSE writes[id]]
               /\ print_stdout' = ~stream_declared("_stdout", task_outputs)
               /\ print_stderr' = ~stream_declared("_stderr", task_outputs)
               /\ container' = Started(container)
               /\ pc' = "container"
               /\ error' = error
    /\ UNCHANGED <<config, validated, pull, gc, files, scratch, scratchMade,
                   excludeFile, gcWaited, idx, script, checked, extracted>>

\* girder_worker.utils.run_process: what a stream's slot holds once the
\* container has exited; a stream that is echoed is not captured
run_process(slot, echoed, text) ==
    IF echoed THEN slot ELSE Set(slot.script_data \o text)

\* the container's return code makes run() raise (line 178)
container_failed(rc) == rc # 0

\* run(), lines 175-179: run_process returns once the container has exited;
\* fs are the output files the container left in the temp directory
ContainerExit(rc, fs, text) ==
    /\ pc = "container"
    /\ container' = Exited(container, rc)
    /\ files' = fs
    /\ outputs' = [id \in OutputIds |->
                     IF id = "_stdout" THEN run_process(outputs[id], print_stdout, text)
                     ELSE IF id = "_stderr"
                          THEN run_process(outputs[id], print_stderr, text)
                          ELSE outputs[id]]
    /\ IF container_failed(rc)
       THEN Fail("docker run returned code", rc)
       ELSE /\ pc' = "gc"
            /\ error' = error
    /\ UNCHANGED <<config, writes, validated, pull, gc, expanded, args,
                   print_stdout, print_stderr, scratch, scratchMade, excludeFile,
                   gcWaited, idx, script, checked, extracted>>

\* faulty variant: the os.access(script, os.X_OK) check is left out
script_is_file(found) == found # "missing"

\* _docker_gc, lines 98-101: the script is a file and is executable
script_usable(found) == found = "ok"

\* faulty variant: an existing scratch directory is accepted (mkdir -p)
mkdir_exist_ok(exists) == FALSE

\* os.mkdir(gc_dir), line 183, raises OSError when the directory exists
mkdir_fails(exists) == exists

\* run(), lines 181-184, with _docker_gc, lines 97-118: the scratch directory
\* is made, the script is checked, the exclude file is written when images are
\* excluded by the configuration, the docker-gc process is started
GarbageCollect(found, excluded) ==
    /\ pc = "gc"
    /\ IF mkdir_fails(scratch)
       THEN /\ Fail("OSError: mkdir, file exists", 0)
            /\ UNCHANGED <<scratch, scratchMade, script, excludeFile, gc>>
       ELSE /\ scratch' = TRUE
            /\ scratchMade' = TRUE
            /\ script' = found
            /\ IF ~script_usable(found)
               THEN /\ Fail(IF found = "missing" THEN "Docker GC script not found"
                            ELSE "Docker GC script is not executable", 0)
                    /\ UNCHANGED <<excludeFile, gc>>
               ELSE /\ excludeFile' = excluded
                    /\ gc' = Started(gc)
                    /\ pc' = "extract"
                    /\ error' = error
    /\ UNCHANGED <<config, slots, validated, pull, container, expanded, args,
                   print_stdout, print_stderr, files, gcWaited, idx, checked,
                   extracted>>

\* faulty variant: the slot is written before the path is tested
ExtractOutput_write_first ==
    /\ pc = "extract"
    /\ idx < Len(task_outputs)
    /\ LET task_output == task_outputs[idx + 1]
           name == task_output.name
           path == host_path(task_output)
       IN IF task_output.target = "filepath"
          THEN /\ checked' = checked \cup {name}
               /\ outputs' = [outputs EXCEPT ![name] = Set(path)]
               /\ writes' = [writes EXCEPT ![name] = @ + 1]
               /\ extracted' = extracted \cup {name}
               /\ IF path \notin files
                  THEN /\ Fail("Output filepath does not exist", 0)
                       /\ UNCHANGED idx
                  ELSE /\ idx' = idx + 1
                       /\ UNCHANGED <<pc, error>>
          ELSE /\ idx' = idx + 1
               /\ UNCHANGED <<slots, pc, error, checked, extracted>>
    /\ UNCHANGED <<config, validated, procs, expanded, args, print_stdout,
                   print_stderr, files, scratch, scratchMade, excludeFile, gcWaited,
                   script>>

\* run(), lines 186-197: one iteration of the extraction loop
ExtractOutput ==
    /\ pc = "extract"
    /\ idx < Len(task_outputs)
    /\ LET task_output == task_outputs[idx + 1]
           name == task_output.name
           path == host_path(task_output)
       IN IF task_output.target = "filepath"
          THEN /\ checked' = checked \cup {name}
               /\ IF path \notin files
                  THEN /\ Fail("Output filepath does not exist", 0)
                       /\ UNCHANGED <<slots, idx, extracted>>
                  ELSE /\ outputs' = [outputs EXCEPT ![name] = Set(path)]
                       /\ writes' = [writes EXCEPT ![name] = @ + 1]
                       /\ extracted' = extracted \cup {name}
                       /\ idx' = idx + 1
                       /\ UNCHANGED <<pc, error>>
          ELSE /\ idx' = idx + 1
               /\ UNCHANGED <<slots, pc, error, checked, extracted>>
    /\ UNCHANGED <<config, validated, procs, expanded, args, print_stdout,
                   print_stderr, files, scratch, scratchMade, excludeFile, gcWaited,
                   script>>

\* the docker-gc process runs beside run() and exits on its own
GCExit(rc) ==
    /\ gc.state = "running"
    /\ gc' = Exited(gc, rc)
    /\ UNCHANGED <<config, slots, pc, error, validated, pull, container,
                   expanded, args, print_stdout, print_stderr, files, scratch,
                   scratchMade, excludeFile, gcWaited, idx, script, checked,
                   extracted>>

\* faulty variant: the garbage collector's return code is not looked at
gc_never_failed(rc) == FALSE

\* the garbage collector's return code makes run() raise (line 201)
gc_failed(rc) == rc # 0

\* faulty variant: docker-gc is waited for before the outputs are extracted
WaitGC_before_extraction ==
    /\ pc = "extract"
    /\ gc.state = "exited"
    /\ gcWaited' = TRUE
    /\ IF gc_failed(gc.code)
       THEN Fail("Docker GC returned code", gc.code)
       ELSE /\ pc' = IF idx = Len(task_outputs) THEN "done" ELSE pc
            /\ error' = error
    /\ UNCHANGED <<config, slots, validated, procs, expanded, args,
                   print_stdout, print_stderr, files, scratch, scratchMade,
                   excludeFile, idx, script, checked, extracted>>

\* run(), lines 199-202: p.wait() returns once docker-gc has exited
WaitGC ==
    /\ pc = "extract"
    /\ idx = Len(task_outputs)
    /\ gc.state = "exited"
    /\ gcWaited' = TRUE
    /\ IF gc_failed(gc.code)
       THEN Fail("Docker GC returned code", gc.code)
       ELSE /\ pc' = "done"
            /\ error' = error
    /\ UNCHANGED <<config, slots, validated, procs, expanded, args,
                   print_stdout, print_stderr, files, scratch, scratchMade,
                   excludeFile, idx, script, checked, extracted>>

\* the framework runs the task again, in the same temp directory or a new one
Restart(sameTempDir) ==
    /\ pc \in {"done", "failed"}
    /\ scratch' = (sameTempDir /\ scratch)
    /\ outputs' = [id \in OutputIds |-> Unset]
    /\ writes' = [id \in OutputIds |-> 0]
    /\ pc' = "before_run"
    /\ error' = NoError
    /\ validated' = FALSE
    /\ pull' = NoProcess
    /\ expanded' = FALSE
    /\ args' = <<>>
    /\ print_stdout' = TRUE
    /\ print_stderr' = TRUE
    /\ container' = NoProcess
    /\ files' = {}
    /\ scratchMade' = FALSE
    /\ excludeFile' = FALSE
    /\ gc' = NoProcess
    /\ gcWaited' = FALSE
    /\ idx' = 0
    /\ script' = "unchecked"
    /\ checked' = {}
    /\ extracted' = {}
    /\ UNCHANGED config

StreamTexts == {<<"text">>}
ScriptStates == {"ok", "missing", "notexec"}

Next ==
    \/ BeforeRun
    \/ RunBegin
    \/ \E rc \in ExitCodes : PullExit(rc)
    \/ StartContainer
    \/ \E rc \in ExitCodes, fs \in SUBSET HostPaths(task_outputs), text \in StreamTexts :
          ContainerExit(rc, fs, text)
    \/ \E found \in ScriptStates, excluded \in BOOLEAN : GarbageCollect(found, excluded)
    \/ ExtractOutput
    \/ \E rc \in ExitCodes : GCExit(rc)
    \/ WaitGC
    \/ \E sameTempDir \in BOOLEAN : Restart(sameTempDir)

Spec == Init /\ [][Next]_vars

\* ------------------------------------------ executions that exercise expansion
\* the tokens of a container argument, and the arguments built from them
ArgTokens == {"--in=", "$input{foo}", "$input{bar}", "$input{_tempdir}"}
Args == SeqsUpTo(ArgTokens, MaxArgLen)

\* script_data of the resolved inputs: inline values (some holding placeholder
\* text) and host paths in, beside and at the temp directory
OutsideFile == <<"/", "tmp", "/", "other", "/", "x">>
DottedFile == <<"/", "tmp", "/", "job1", "/", ".", "/", "in.txt">>
InputValues(id) ==
    CASE id = "foo" -> {<<"hello">>, <<"$input{bar}">>, FooFile, OutsideFile, DottedFile}
      [] id = "bar" -> {<<"world">>, <<"$input{foo}">>}
      [] id = "_tempdir" -> {<<"x">>, TempDir}

ResolvedInputs ==
    UNION {{f \in [D -> UNION {InputValues(id) : id \in InputIds}] :
               \A id \in D : f[id] \in InputValues(id)} : D \in SUBSET InputIds}

InputDescriptors ==
    { PlainFoo, FileFoo,
      [hasId |-> TRUE, id |-> "foo", name |-> "bar", target |-> "filepath"],
      [hasId |-> TRUE, id |-> "bar", name |-> "bar", target |-> "memory"],
      [hasId |-> FALSE, id |-> "", name |-> "bar", target |-> "memory"],
      [hasId |-> TRUE, id |-> "_tempdir", name |-> "_tempdir", target |-> "filepath"] }

TaskInputs ==
    {<<>>} \cup {<<d>> : d \in InputDescriptors}
           \cup {<<d, e>> : d \in InputDescriptors, e \in InputDescriptors}

\* a filepath input's script_data is the absolute host path of the fetched file
FilepathInputsArePaths(ins, tis) ==
    \A id \in DOMAIN ins :
        (\E i \in 1..Len(tis) : tiId(tis[i]) = id /\ tis[i].target = "filepath")
            => Head(ins[id]) = "/"

\* run() has been entered for a task without outputs and without pull, and is
\* about to expand one container argument
InitExpand ==
    /\ \E arg \in Args : task = [pull_image |-> "false", container_args |-> <<arg>>]
    /\ inputs \in ResolvedInputs
    /\ task_inputs \in TaskInputs
    /\ FilepathInputsArePaths(inputs, task_inputs)
    /\ task_outputs = <<>>
    /\ outputs = [id \in OutputIds |-> Unset]
    /\ writes = [id \in OutputIds |-> 0]
    /\ pc = "expand"
    /\ error = NoError
    /\ validated = TRUE
    /\ pull = NoProcess
    /\ expanded = FALSE
    /\ args = <<>>
    /\ print_stdout = TRUE
    /\ print_stderr = TRUE
    /\ container = NoProcess
    /\ files = {}
    /\ scratch = FALSE
    /\ scratchMade = FALSE
    /\ excludeFile = FALSE
    /\ gc = NoProcess
    /\ gcWaited = FALSE
    /\ idx = 0
    /\ script = "unchecked"
    /\ checked = {}
    /\ extracted = {}

NextExpand == StartContainer

SpecExpand == InitExpand /\ [][NextExpand]_vars

\* ------------------------------------ executions that exercise the output paths
\* values of spec['path'] beside those of OutputPaths: the mount itself, paths
\* that leave the mount through '..', and relative paths
DeclaredPaths ==
    OutputPaths \cup { <<"/", "data">>,
                       <<"/", "data", "/", "..", "/", "f">>,
                       <<"..", "/", "f">>,
                       <<"sub", "/", "f">> }

DeclaredSpecs ==
    [name : {"res"}, target : {"filepath"}, hasPath : {TRUE}, path : DeclaredPaths]
    \cup [name : {"_stdout", "_stderr", "out"}, target : {"filepath", "memory"},
          hasPath : {FALSE}, path : {<<>>}]

DeclaredOutputs ==
    {outs \in SeqsUpTo(DeclaredSpecs, MaxOutputs) : Cardinality(Names(outs)) = Len(outs)}

InitOutputs ==
    /\ \E flag \in PullFlags, sc \in Scenarios :
          /\ task = [pull_image |-> flag, container_args |-> sc.container_args]
          /\ inputs = sc.inputs
          /\ task_inputs = sc.task_inputs
    /\ task_outputs \in DeclaredOutputs
    /\ scratch = FALSE
    /\ Fresh

NextOutputs == Next

SpecOutputs == InitOutputs /\ [][NextOutputs]_vars

\* ------------------------------------------------------------------ claims
FilepathOutputs == {i \in 1..Len(task_outputs) : task_outputs[i].target = "filepath"}
PullWanted == task.pull_image \in {"true", "absent"}
NothingStarted ==
    /\ pull.started = 0
    /\ container.started = 0
    /\ gc.started = 0
NoSideEffect ==
    /\ NothingStarted
    /\ ~scratchMade
    /\ ~excludeFile
    /\ \A id \in OutputIds : writes[id] = 0 /\ outputs[id] = Unset

\* an output descriptor the output validator has to reject, as the
\* specification words it
Misconfigured(spec) ==
    \/ /\ spec.target # "filepath"
       /\ spec.name # "_stdout"
       /\ spec.name # "_stderr"
    \/ /\ spec.target = "filepath"
       /\ Head(effective_path(spec)) = "/"
       /\ \/ Len(effective_path(spec)) < 3
          \/ SubSeq(effective_path(spec), 1, 3) # <<"/", "data", "/">>

C2_ReclaimerJoinedAtEnd ==
    (pc \in {"done", "failed"} /\ gc.started > 0)
        => (idx = Len(task_outputs) /\ gcWaited /\ gc.state = "exited")

\* C3: stage ordering: when the pull is enabled it has exited before the
\* arguments are expanded and before the container is started; the container
\* has exited before a filepath output is checked for existence or written;
\* the reclaimer is started only after the container has exited.
C3_StageOrder ==
    /\ (PullWanted /\ (expanded \/ container.started > 0)) => pull.state = "exited"
    /\ (checked # {} \/ extracted # {}) => container.state = "exited"
    /\ gc.started > 0 => container.state = "exited"

C3_Witness ==
    /\ pc = "done"
    /\ PullWanted
    /\ pull.state = "exited"
    /\ extracted # {}

\* C4: run() returns without raising only if the container exited with
\* status 0, every declared filepath output's host path existed and was
\* written into its slot, and the reclaimer was waited for and exited with 0.
C4_SuccessMeans ==
    pc = "done" =>
        /\ container.state = "exited" /\ container.code = 0
        /\ \A i \in FilepathOutputs :
              /\ host_path(task_outputs[i]) \in files
              /\ task_outputs[i].name \in checked
              /\ outputs[task_outputs[i].name] = Set(host_path(task_outputs[i]))
        /\ gcWaited /\ gc.state = "exited" /\ gc.code = 0

C4_Witness ==
    /\ pc = "done"
    /\ Cardinality(FilepathOutputs) = 2
    /\ excludeFile

\* C5: when the container exits with a non-zero status n, run() fails with
\* the container error carrying n, and no scratch directory is made, no
\* reclaimer is started and no filepath output's slot is written.
C5_ContainerFailure ==
    (container.state = "exited" /\ container.code # 0) =>
        /\ pc = "failed"
        /\ error = Exception("docker run returned code", container.code)
        /\ ~scratchMade
        /\ gc.started = 0
        /\ \A i \in FilepathOutputs : writes[task_outputs[i].name] = 0

\* C6: nothing is retried and every error ends the execution: the pull, the
\* container and the reclaimer are each started at most once, and once an
\* error has been raised no process is started and no slot is written.
C6_NoRetry ==
    /\ [](pull.started <= 1 /\ container.started <= 1 /\ gc.started <= 1)
    /\ [][(pc = "failed" /\ pc' = "failed") =>
            /\ pull.started' = pull.started
            /\ container.started' = container.started
            /\ gc.started' = gc.started
            /\ UNCHANGED <<outputs, writes, error>>]_vars

C6_Witness ==
    /\ pc = "failed"
    /\ error.kind = "Output filepath does not exist"
    /\ gc.state = "exited"
    /\ pull.started = 1

\* C7: the image is pulled if and only if pull_image is true or absent; when
\* the pull exits non-zero run() fails with the pull error carrying that code
\* and the expansion, the container and the reclaimer are never started.
C7_PullFlag ==
    /\ pull.started > 0 => PullWanted
    /\ (PullWanted /\ validated /\ pc # "run") => pull.started = 1
    /\ (pull.state = "exited" /\ pull.code # 0) =>
          /\ pc = "failed"
          /\ error = Exception("Docker pull returned code", pull.code)
          /\ ~expanded
          /\ container.started = 0
          /\ gc.started = 0

C7_Witness ==
    /\ task.pull_image = "absent"
    /\ pull.state = "exited"
    /\ pull.code = 2
    /\ pc = "failed"

\* C8: no declared output's script_data is written more than once by run(),
\* no slot of an undeclared output is written, and on success every declared
\* output's slot has been written.
C8_WrittenOnce ==
    /\ \A id \in Declared : writes[id] <= 1
    /\ \A id \in OutputIds \ Declared : writes[id] = 0
    /\ pc = "done" => \A id \in Declared : writes[id] >= 1

\* C9: when the container is started, the slot of a stream (_stdout, _stderr)
\* has been set to the empty string if and only if the stream is a declared
\* output, its echoing is switched off if and only if it is declared, and the
\* slot of an undeclared stream is untouched.
C9_StreamsAtStart ==
    pc = "container" =>
        /\ \A s \in Streams :
              /\ (outputs[s] = Set(<<>>) /\ writes[s] = 1) <=> s \in Declared
              /\ s \notin Declared => (outputs[s] = Unset /\ writes[s] = 0)
        /\ print_stdout <=> "_stdout" \notin Declared
        /\ print_stderr <=> "_stderr" \notin Declared

C9_Witness ==
    /\ pc = "container"
    /\ "_stdout" \in Declared
    /\ "_stderr" \notin Declared
    /\ \E i \in FilepathOutputs : task_outputs[i].name = "_stdout"

\* C10: when the reclaimer script is missing or not executable the error is
\* raised before a reclaimer process is started and before an exclusion file
\* is written, and there is no reclaimer to wait for.
C10_GCUnavailable ==
    script \in {"missing", "notexec"} =>
        /\ pc = "failed"
        /\ error.kind = (IF script = "missing" THEN "Docker GC script not found"
                         ELSE "Docker GC script is not executable")
        /\ gc = NoProcess
        /\ ~excludeFile
        /\ ~gcWaited

C10_Witness ==
    /\ script = "notexec"
    /\ pc = "failed"
    /\ scratchMade

\* C11: the GC error carrying the reclaimer's non-zero status is raised only
\* after extraction has finished: when it is raised every declared filepath
\* output's slot holds its host path.
C11_GCErrorAfterExtraction ==
    error.kind = "Docker GC returned code" =>
        /\ gc.state = "exited" /\ gc.code # 0 /\ error.code = gc.code
        /\ gcWaited
        /\ idx = Len(task_outputs)
        /\ \A i \in FilepathOutputs :
              /\ host_path(task_outputs[i]) \in files
              /\ outputs[task_outputs[i].name] = Set(host_path(task_outputs[i]))

C11_Witness ==
    /\ error = Exception("Docker GC returned code", 2)
    /\ Cardinality(FilepathOutputs) = 2

\* C19: extraction stops at the first declared filepath output whose host
\* path does not exist: the slots of the filepath outputs processed before it
\* hold their host paths, the slot of the missing output is not written by
\* the extraction, and no output after it is tested or written.
C19_StopsAtFirstMissing ==
    /\ \A i \in FilepathOutputs :
          task_outputs[i].name \in extracted =>
              /\ host_path(task_outputs[i]) \in files
              /\ outputs[task_outputs[i].name] = Set(host_path(task_outputs[i]))
    /\ error.kind = "Output filepath does not exist" =>
          /\ pc = "failed"
          /\ idx < Len(task_outputs)
          /\ task_outputs[idx + 1].target = "filepath"
          /\ host_path(task_outputs[idx + 1]) \notin files
          /\ task_outputs[idx + 1].name \notin extracted
          /\ writes[task_outputs[idx + 1].name]
                = (IF task_outputs[idx + 1].name \in Streams THEN 1 ELSE 0)
          /\ \A i \in FilepathOutputs :
                /\ i <= idx => task_outputs[i].name \in extracted
                /\ i > idx + 1 => /\ task_outputs[i].name \notin checked
                                  /\ task_outputs[i].name \notin extracted

C19_Witness ==
    /\ error.kind = "Output filepath does not exist"
    /\ idx = 1
    /\ extracted # {}
    /\ task_outputs[2].name = "res"
    /\ outputs["res"] = Unset

\* C20, as claimed: an execution that finds the scratch directory of an
\* earlier execution in its temp directory ends by failing at the creation of
\* the scratch directory, after its container has run, with no reclaimer
\* started and no filepath output's slot written.
C20_EveryLaterExecutionFailsAtMkdir ==
    (scratch /\ ~scratchMade /\ pc \in {"done", "failed"}) =>
        /\ error.kind = "OSError: mkdir, file exists"
        /\ container.state = "exited"
        /\ gc.started = 0
        /\ \A i \in FilepathOutputs : writes[task_outputs[i].name] = 0

\* C20, amended: the scratch directory is made only after the container
\* exited with 0 and run() never removes it; an execution that finds it in
\* its temp directory never succeeds, never starts a reclaimer and never
\* extracts an output, and when its container has exited with 0 its next step
\* fails at the creation of the scratch directory.
C20_ScratchNeverRemoved ==
    /\ [](scratchMade => (scratch /\ container.state = "exited" /\ container.code = 0))
    /\ []((scratch /\ ~scratchMade) =>
            (pc # "done" /\ gc.started = 0 /\ checked = {} /\ extracted = {}))
    /\ [][(scratch /\ pc' # "before_run") => scratch']_vars
    /\ [][(scratch /\ pc = "gc") =>
            /\ pc' = "failed"
            /\ error' = Exception("OSError: mkdir, file exists", 0)
            /\ UNCHANGED <<gc, outputs, writes, checked, extracted>>]_vars

C20_Witness ==
    /\ scratch /\ ~scratchMade
    /\ pc = "failed"
    /\ error.kind = "OSError: mkdir, file exists"
    /\ container.state = "exited" /\ container.code = 0

\* ------------------------------------------------- claims about expansion
TheArg == task.container_args[1]
ArgIds == {findall(TheArg)[i] : i \in 1..Len(findall(TheArg))}
Occurrences(s, tok) == Cardinality({i \in 1..Len(s) : s[i] = tok})
ExpansionDone == pc = "container"
ExpansionRaised == pc = "failed" /\ error.kind = "No task input found with id"

\* the descriptors that declare the input id: by 'id', or by 'name' when the
\* descriptor has no 'id'
DescriptorsOf(id) ==
    {i \in 1..Len(task_inputs) :
        \/ task_inputs[i].hasId /\ task_inputs[i].id = id
        \/ ~task_inputs[i].hasId /\ task_inputs[i].name = id}

\* C12: every occurrence of $input{_tempdir} is replaced by /data, whether
\* or not an id _tempdir is among the resolved inputs or the descriptors, and
\* the expansion of this placeholder never raises.
C12_TempdirIsData ==
    (pc # "expand" /\ ArgIds = {"_tempdir"}) =>
        /\ ExpansionDone
        /\ args = <<replace(TheArg, "$input{_tempdir}", DATA)>>

\* C13: a placeholder whose id is not among the resolved inputs (and is not
\* _tempdir) is left in place without error, and expanding the result again
\* with the same inputs gives the same arguments.
C13_AbsentLeftUnchanged ==
    pc # "expand" =>
        /\ (\A id \in ArgIds : id \notin DOMAIN inputs /\ id # "_tempdir") =>
              /\ ExpansionDone
              /\ args = task.container_args
              /\ _expand_args(args, inputs, task_inputs, TempDir) = Return(args)
        /\ \A id \in ArgIds :
              (id \notin DOMAIN inputs /\ id # "_tempdir" /\ ExpansionDone) =>
                 Occurrences(args[1], Placeholder(id))
                    >= Occurrences(TheArg, Placeholder(id))

C13_Witness ==
    /\ ExpansionDone
    /\ TheArg = <<"$input{bar}", "$input{foo}">>
    /\ DOMAIN inputs = {"foo"}
    /\ DescriptorsOf("bar") # {}
    /\ args = << <<"$input{bar}", "hello">> >>

\* the argument holds one placeholder, of an input that is resolved and declared
SinglePlaceholder(id) ==
    /\ pc # "expand"
    /\ findall(TheArg) = <<id>>
    /\ id \in DOMAIN inputs
    /\ DescriptorsOf(id) # {}
DeclaredFilepath(id) == \A i \in DescriptorsOf(id) : task_inputs[i].target = "filepath"
DeclaredInline(id) == \A i \in DescriptorsOf(id) : task_inputs[i].target # "filepath"
InContainer(id) == DATA \o <<"/">> \o relpath(inputs[id], TempDir)
SamePlace(p, q) == normalize(split(p), <<>>) = normalize(split(q), <<>>)
NormalizedUnderTempDir(p) ==
    /\ startswith(p, TempDir \o <<"/">>)
    /\ join(normalize(split(p), <<>>)) = SubSeq(p, 2, Len(p))

C15_UnknownInput ==
    pc # "expand" =>
        /\ ExpansionRaised <=>
              \E id \in ArgIds : id \in DOMAIN inputs /\ DescriptorsOf(id) = {}
        /\ ExpansionRaised =>
              (container = NoProcess /\ NothingStarted /\ args = <<>>
               /\ \A id \in OutputIds : outputs[id] = Unset)
        /\ ~ExpansionRaised => (ExpansionDone /\ container.started = 1)

C15_Witness ==
    /\ ExpansionRaised
    /\ TheArg = <<"$input{bar}", "$input{foo}">>
    /\ DOMAIN inputs = {"foo"}
    /\ DescriptorsOf("bar") # {}
    /\ DescriptorsOf("foo") = {}

\* the ids of the argument's placeholders, in every order
Orders(ids) ==
    IF ids = <<>> THEN {<<>>}
    ELSE {[i \in 1..Len(ids) |-> ids[p[i]]] : p \in Permutations(1..Len(ids))}
Outcome == IF ExpansionDone THEN Return(args[1]) ELSE Raise

\* C17, as claimed: for every assignment of input values, expanding the
\* placeholders of an argument in any order gives what the left-to-right
\* order of _expand_args gives.
C17_AnyOrder ==
    pc # "expand" =>
        \A ids \in Orders(findall(TheArg)) :
            expand_arg(TheArg, ids, inputs, task_inputs, TempDir) = Outcome

\* --------------------------------------------- claims about the output paths
\* C16: validate_task_outputs raises the invalid-output-spec error if and only
\* if some declared output is filepath-target with an absolute effective path
\* not rooted at /data/, or is not filepath-target and has an id other than
\* _stdout and _stderr; filepath outputs with a relative effective path are
\* accepted; and validating changes nothing but the verdict.
C16_ValidatorRejects ==
    /\ [](pc # "before_run" =>
            /\ (pc = "failed" /\ error.kind = "TaskSpecValidationError")
                  <=> \E i \in 1..Len(task_outputs) : Misconfigured(task_outputs[i])
            /\ validated
                  <=> \A i \in 1..Len(task_outputs) : ~Misconfigured(task_outputs[i])
            /\ (\A i \in 1..Len(task_outputs) :
                    /\ task_outputs[i].target = "filepath"
                    /\ Head(effective_path(task_outputs[i])) # "/") => validated)
    /\ [][pc = "before_run" =>
            UNCHANGED <<config, slots, procs, expanded, args, print_stdout,
                        print_stderr, files, scratch, scratchMade, excludeFile,
                        gcWaited, idx, script, checked, extracted>>]_vars

C16_Witness ==
    /\ pc = "failed"
    /\ error.kind = "TaskSpecValidationError"
    /\ NoSideEffect
    /\ Len(task_outputs) = 2
    /\ task_outputs[1] = [name |-> "res", target |-> "filepath", hasPath |-> TRUE,
                          path |-> <<"sub", "/", "f">>]
    /\ task_outputs[2] = [name |-> "out", target |-> "memory", hasPath |-> FALSE,
                          path |-> <<>>]

\* lines 188-190 of run(): the in-container path of a filepath output
in_container_path(spec) ==
    LET path == effective_path(spec)
    IN IF ~startswith(path, <<"/">>) THEN DATA_SLASH \o path ELSE path
\* the location p names lies at or below the directory root
Under(p, root) ==
    startswith(normalize(split(p), <<>>), normalize(split(root), <<>>))

\* C18: for every filepath output of an accepted task, the effective path
\* after defaulting and rooting names a location under /data, and the host
\* path that extraction computes, checks and stores lies under the temp
\* directory, also when the effective path holds '..' components.
C18_OutputsStayUnderMount ==
    validated =>
        \A i \in FilepathOutputs :
            LET spec == task_outputs[i]
            IN /\ Under(in_container_path(spec), DATA)
               /\ spec.name \in checked => Under(host_path(spec), TempDir)
               /\ spec.name \in extracted =>
                     Under(outputs[spec.name].script_data, TempDir)

====
